---- MODULE Spec2Model ----
(***************************************************************************)
(* Ledger core of testnet.js: Transaction, Block and Blockchain, with the  *)
(* periodic validation step that batches pending transactions into blocks. *)
(*                                                                         *)
(* Value encodings                                                         *)
(*   - a JavaScript number that may be undefined / NaN is a sequence:      *)
(*     <<n>> is the number n, <<>> is undefined (as an amount) or NaN (as  *)
(*     the result of arithmetic);                                          *)
(*   - sha256 is collision free: a hash is the tuple of the values that    *)
(*     are concatenated into the hashed string;                            *)
(*   - an ECDSA signature is the pair <<signing key, signed digest>>; a    *)
(*     private key is named by the public key (address) it belongs to.     *)
(***************************************************************************)
EXTENDS Integers, Sequences, FiniteSets, TLC

VARIABLES chain, pendingTransactions, now, nextId, lastOp, running

vars == <<chain, pendingTransactions, now, nextId, lastOp, running>>

(***************************************************************************)
(* Bounds of the model.                                                    *)
(***************************************************************************)
\* number of transactions admitted after construction
MaxTx == 2
\* last value of the millisecond clock
MaxTime == 1

(***************************************************************************)
(* Values.                                                                 *)
(***************************************************************************)
\* fromAddress === null: a system transaction
Null == "null"
\* a missing (undefined or empty) address: falsy and not null
Missing == ""
\* public keys of the key pairs; a public key doubles as the address
Keys == {"A", "B"}
\* this.faucetAddress
faucetAddress == "F"
\* amount of the transaction the constructor puts in the pool
InitialFaucetFunds == 10000000
\* this.transactionsPerBlock
transactionsPerBlock == 20

Undefined == <<>>
NaN == <<>>
Num(n) == <<n>>
\* amounts a caller may pass: none, a negative one, a positive one
Amounts == {Undefined, Num(-1), Num(2)}

\* this.signature = null
NoSig == <<>>

(***************************************************************************)
(* Transaction                                                             *)
(***************************************************************************)
\* new Transaction(fromAddress, toAddress, amount)
Transaction(from, to, amount, time, id) ==
  [fromAddress |-> from, toAddress |-> to, amount |-> amount,
   timestamp |-> time, signature |-> NoSig, transactionId |-> id]

\* Transaction.calculateHash: sha256(from + to + amount + timestamp)
TxCalculateHash(tx) ==
  <<tx.fromAddress, tx.toAddress, tx.amount, tx.timestamp>>

\* signingKey.sign(hashTx) by the private key of public key `key`
Sign(key, digest) == <<key, digest>>

\* publicKey.verify(digest, signature)
Verify(publicKey, digest, signature) ==
  /\ Len(signature) = 2
  /\ signature[1] = publicKey
  /\ signature[2] = digest

\* Transaction.signTransaction throws: the key is not the sender's
SignTransactionThrows(tx, signingKey) ==
  IF tx.fromAddress = Null THEN FALSE
  ELSE signingKey # tx.fromAddress

\* Transaction.signTransaction when it does not throw
SignTransaction(tx, signingKey) ==
  IF tx.fromAddress = Null THEN tx
  ELSE [tx EXCEPT !.signature = Sign(signingKey, TxCalculateHash(tx))]

\* Transaction.isValid: "true", "false" or "throw"
TxIsValid(tx) ==
  IF tx.fromAddress = Null THEN "true"
  ELSE IF tx.signature = NoSig THEN "throw"
  ELSE IF Verify(tx.fromAddress, TxCalculateHash(tx), tx.signature)
       THEN "true" ELSE "false"

(***************************************************************************)
(* Block                                                                   *)
(***************************************************************************)
\* the string a slot contributes to the hashed concatenation
SlotString(slot) == IF slot = Undefined THEN "undefined" ELSE ToString(slot[1])

HashOfFields_NoPayload(previousHash, timestamp, transactions, slot) ==
  <<previousHash, timestamp>>

\* Block.calculateHash on the fields as they are at the time of the call
HashOfFields(previousHash, timestamp, transactions, slot) ==
  <<previousHash, timestamp, transactions, SlotString(slot)>>

\* Block.calculateHash of a constructed block
BlockCalculateHash(b) ==
  HashOfFields(b.previousHash, b.timestamp, b.transactions, Num(b.slot))

\* the value of this.slot when the constructor evaluates this.calculateHash():
\* the assignment this.slot = Date.now() comes one statement later
SlotAtHashTime(slot) == Undefined

\* new Block(timestamp, transactions, previousHash), slot = Date.now()
Block(timestamp, transactions, previousHash, slot) ==
  [timestamp |-> timestamp, transactions |-> transactions,
   previousHash |-> previousHash,
   hash |-> HashOfFields(previousHash, timestamp, transactions,
                         SlotAtHashTime(slot)),
   slot |-> slot, validator |-> "system"]

\* Block.hasValidTransactions: "true", "false" or "throw"
RECURSIVE HasValidFrom(_, _)
HasValidFrom(txs, i) ==
  IF i > Len(txs) THEN "true"
  ELSE LET r == TxIsValid(txs[i])
       IN IF r = "throw" THEN "throw"
          ELSE IF r = "false" THEN "false"
          ELSE HasValidFrom(txs, i + 1)

HasValidTransactions(b) == HasValidFrom(b.transactions, 1)

(***************************************************************************)
(* Blockchain                                                              *)
(***************************************************************************)
\* previousHash of the genesis block, the string '0'
GenesisPrevious == <<"0">>

\* Blockchain.createGenesisBlock
CreateGenesisBlock(time) == Block(time, <<>>, GenesisPrevious, time)

GetLatestBlock_First(c) == c[1]

\* Blockchain.getLatestBlock
GetLatestBlock(c) == c[Len(c)]

\* Array.prototype.slice(from) / slice(0, to) on a sequence
SliceFrom(s, n) == IF n >= Len(s) THEN <<>> ELSE SubSeq(s, n + 1, Len(s))
SliceTo(s, n) == IF n >= Len(s) THEN s ELSE SubSeq(s, 1, n)

NoTx == Transaction(Missing, Missing, Undefined, 0, 0)

Op(op, tx, threw, ret) == [op |-> op, tx |-> tx, threw |-> threw, ret |-> ret]

\* new Blockchain(): the genesis block and the faucet funding transaction
Init ==
  /\ now = 0
  /\ chain = <<CreateGenesisBlock(0)>>
  /\ pendingTransactions =
       <<Transaction(Null, faucetAddress, Num(InitialFaucetFunds), 0, 1)>>
  /\ nextId = 2
  /\ lastOp = Op("constructor", NoTx, "", <<>>)
  /\ running = 0

\* the millisecond clock behind Date.now()
AdvanceClock ==
  /\ now < MaxTime
  /\ now' = now + 1
  /\ lastOp' = Op("clock", NoTx, "", <<>>)
  /\ UNCHANGED <<chain, pendingTransactions, nextId, running>>

ChainAfterValidate_Unshift(c, pending, time, slot) ==
  IF Len(pending) = 0 THEN c
  ELSE <<Block(time, SliceTo(pending, transactionsPerBlock),
               GetLatestBlock(c).hash, slot)>> \o c

ChainAfterValidate_NoSkip(c, pending, time, slot) ==
  Append(c, Block(time, SliceTo(pending, transactionsPerBlock),
                  GetLatestBlock(c).hash, slot))

ChainAfterValidate_Newest(c, pending, time, slot) ==
  IF Len(pending) = 0 THEN c
  ELSE Append(c, Block(time,
                       IF Len(pending) <= transactionsPerBlock THEN pending
                       ELSE SliceFrom(pending,
                                      Len(pending) - transactionsPerBlock),
                       GetLatestBlock(c).hash, slot))

ChainAfterValidate_TakeAll(c, pending, time, slot) ==
  IF Len(pending) = 0 THEN c
  ELSE Append(c, Block(time, pending, GetLatestBlock(c).hash, slot))

ChainAfterValidate_Overwrite(c, pending, time, slot) ==
  IF Len(pending) = 0 THEN c
  ELSE [c EXCEPT ![Len(c)] =
          Block(time, SliceTo(pending, transactionsPerBlock),
                GetLatestBlock(c).hash, slot)]

ChainAfterValidate_FirstOnly(c, pending, time, slot) ==
  IF Len(pending) = 0 THEN c
  ELSE Append(c, Block(time, SliceTo(pending, 1),
                       GetLatestBlock(c).hash, slot))

\* the blocks appended and the pool left by validatePendingTransactions
ChainAfterValidate(c, pending, time, slot) ==
  IF Len(pending) = 0 THEN c
  ELSE Append(c, Block(time, SliceTo(pending, transactionsPerBlock),
                       GetLatestBlock(c).hash, slot))

PendingAfterValidate_KeepLast(pending) ==
  IF Len(pending) = 0 THEN pending
  ELSE SliceFrom(pending, Len(pending) - 1)

PendingAfterValidate(pending) ==
  IF Len(pending) = 0 THEN pending
  ELSE SliceFrom(pending, transactionsPerBlock)

\* what validatePendingTransactions logs: nothing when it skips, else the
\* number of transactions of the block
ValidateLog(pending) ==
  IF Len(pending) = 0 THEN <<>>
  ELSE <<Len(SliceTo(pending, transactionsPerBlock))>>

\* Blockchain.validatePendingTransactions, run by the interval timer
validatePendingTransactions ==
  \E slot \in {s \in {now, now + 1} : s <= MaxTime} :
    /\ chain' = ChainAfterValidate(chain, pendingTransactions, now, slot)
    /\ pendingTransactions' = PendingAfterValidate(pendingTransactions)
    /\ now' = IF Len(pendingTransactions) = 0 THEN now ELSE slot
    /\ lastOp' = Op("validatePendingTransactions", NoTx, "",
                    ValidateLog(pendingTransactions))
    /\ UNCHANGED <<nextId, running>>

AddTransactionThrows_IgnoreResult(tx) ==
  IF tx.toAddress = Missing
    THEN "Transaction must include a destination address"
  ELSE IF tx.fromAddress = Null THEN ""
  ELSE IF tx.fromAddress = Missing
    THEN "Transaction must include a sender address"
  ELSE IF TxIsValid(tx) = "throw" THEN "No signature in this transaction"
  ELSE ""

\* the error addTransaction throws for a transaction, "" if it admits it
AddTransactionThrows(tx) ==
  IF tx.toAddress = Missing
    THEN "Transaction must include a destination address"
  ELSE IF tx.fromAddress = Null THEN ""
  ELSE IF tx.fromAddress = Missing
    THEN "Transaction must include a sender address"
  ELSE IF TxIsValid(tx) = "throw" THEN "No signature in this transaction"
  ELSE IF TxIsValid(tx) = "false"
    THEN "Cannot add invalid transaction to the chain"
  ELSE ""

PendingAfterAdd_PushFirst(pending, tx) ==
  IF tx.toAddress = Missing THEN pending ELSE Append(pending, tx)

\* the pool after addTransaction(tx)
PendingAfterAdd(pending, tx) ==
  IF AddTransactionThrows(tx) = "" THEN Append(pending, tx) ELSE pending

\* the signatures a caller may put on a transaction it built: none, one
\* made by any key over the digest, or one made by the sender's key over
\* the digest the transaction had with another amount
Signatures(tx) ==
  {NoSig}
  \cup {Sign(k, TxCalculateHash(tx)) : k \in Keys}
  \cup {Sign(tx.fromAddress,
             TxCalculateHash([tx EXCEPT !.amount = Num(1)]))}

\* a transaction built by a caller, with the signature the caller put on it
Signed(tx, signature) == [tx EXCEPT !.signature = signature]

\* the transactions a caller may hand to addTransaction at this moment:
\* system transactions, transfers from A to B under every signature, and
\* transfers that lack the sender or the destination
Submissions ==
  {Transaction(Null, to, a, now, nextId) :
     to \in {Missing, "A"}, a \in Amounts}
  \cup
  {Signed(Transaction("A", "B", Num(2), now, nextId), s) :
     s \in Signatures(Transaction("A", "B", Num(2), now, nextId))}
  \cup
  UNION {{Signed(tx, s) : s \in {NoSig, Sign("A", TxCalculateHash(tx))}} :
         tx \in {Transaction(Missing, "B", Num(2), now, nextId),
                 Transaction("A", Missing, Num(2), now, nextId)}}

\* one call addTransaction(tx)
AddTransactionCall(tx) ==
  /\ pendingTransactions' = PendingAfterAdd(pendingTransactions, tx)
  /\ nextId' = IF AddTransactionThrows(tx) = "" THEN nextId + 1 ELSE nextId
  /\ lastOp' = Op("addTransaction", tx, AddTransactionThrows(tx),
                  IF AddTransactionThrows(tx) = ""
                    THEN <<tx.transactionId>> ELSE <<>>)
  /\ UNCHANGED <<chain, now, running>>

\* Blockchain.addTransaction(transaction)
addTransaction ==
  \E tx \in Submissions :
    /\ nextId - 2 < MaxTx
    /\ AddTransactionCall(tx)

\* the transactions of the blocks of a chain, in chain order
RECURSIVE ChainTransactions(_)
ChainTransactions(c) ==
  IF Len(c) = 0 THEN <<>>
  ELSE ChainTransactions(SubSeq(c, 1, Len(c) - 1)) \o c[Len(c)].transactions

\* balance -= amount and balance += amount on JavaScript numbers
JsSub(x, y) == IF x = NaN \/ y = Undefined THEN NaN ELSE Num(x[1] - y[1])
JsAdd(x, y) == IF x = NaN \/ y = Undefined THEN NaN ELSE Num(x[1] + y[1])

\* the body of both loops of getBalanceOfAddress for one transaction
BalanceStep(balance, trans, address) ==
  LET afterFrom == IF trans.fromAddress = address
                     THEN JsSub(balance, trans.amount) ELSE balance
  IN IF trans.toAddress = address
       THEN JsAdd(afterFrom, trans.amount) ELSE afterFrom

RECURSIVE BalanceOver(_, _, _)
BalanceOver(balance, txs, address) ==
  IF Len(txs) = 0 THEN balance
  ELSE BalanceOver(BalanceStep(balance, Head(txs), address), Tail(txs), address)

\* Blockchain.getBalanceOfAddress on a chain and a pool
BalanceOf(c, pending, address) ==
  BalanceOver(BalanceOver(Num(0), ChainTransactions(c), address),
              pending, address)

\* the check isChainValid makes on block i: "ok", "false" or "throw"
BlockCheck(c, i) ==
  LET r == HasValidTransactions(c[i])
  IN IF r = "throw" THEN "throw"
     ELSE IF r = "false" THEN "false"
     ELSE IF c[i].hash # BlockCalculateHash(c[i]) THEN "false"
     ELSE IF c[i].previousHash # c[i - 1].hash THEN "false"
     ELSE "ok"

RECURSIVE IsChainValidFrom(_, _)
IsChainValidFrom(c, i) ==
  IF i > Len(c) THEN "true"
  ELSE IF BlockCheck(c, i) = "ok" THEN IsChainValidFrom(c, i + 1)
  ELSE BlockCheck(c, i)

\* Blockchain.isChainValid on a chain: "true", "false" or "throw"
IsChainValid(c) == IsChainValidFrom(c, 2)

\* the addresses balances are asked for
Addresses == {"A", "B", faucetAddress}

\* GET /api/balance/:address, a call of getBalanceOfAddress
getBalanceOfAddress ==
  \E a \in Addresses :
    /\ lastOp' = Op("getBalanceOfAddress", NoTx, "",
                    <<a, BalanceOf(chain, pendingTransactions, a)>>)
    /\ UNCHANGED <<chain, pendingTransactions, now, nextId, running>>

\* a call of isChainValid
isChainValid ==
  /\ lastOp' = Op("isChainValid", NoTx,
                  IF IsChainValid(chain) = "throw"
                    THEN "No signature in this transaction" ELSE "",
                  <<IsChainValid(chain)>>)
  /\ UNCHANGED <<chain, pendingTransactions, now, nextId, running>>

Next ==
  \/ AdvanceClock
  \/ validatePendingTransactions
  \/ addTransaction
  \/ getBalanceOfAddress
  \/ isChainValid

Spec == Init /\ [][Next]_vars

(***************************************************************************)
(* A workload of many transfers, for the batches of transactionsPerBlock.  *)
(***************************************************************************)
\* number of transfers submitted
MaxBulk == 25
\* number of blocks validated
MaxBulkBlocks == 2

\* a transfer of 2 from A to B, signed by A
BulkTransaction ==
  SignTransaction(Transaction("A", "B", Num(2), now, nextId), "A")

\* addTransaction of a signed transfer
BulkSubmit ==
  /\ nextId - 2 < MaxBulk
  /\ AddTransactionCall(BulkTransaction)

\* validatePendingTransactions, for the first MaxBulkBlocks blocks
BulkTick ==
  /\ Len(chain) <= MaxBulkBlocks
  /\ validatePendingTransactions

NextBulk ==
  \/ BulkSubmit
  \/ BulkTick

SpecBulk == Init /\ [][NextBulk]_vars

(***************************************************************************)
(* Tampering: code outside the ledger assigns to the amount of a           *)
(* transaction object that a block of the chain holds.                     *)
(***************************************************************************)
\* the amounts written by tampering: none, and a number no caller passes
TamperAmounts == {Undefined, Num(7)}

\* addTransaction of a signed transfer, next to the constructor's system
\* transaction
TamperSubmit ==
  /\ nextId - 2 < MaxTx
  /\ AddTransactionCall(BulkTransaction)

\* chain[i].transactions[j].amount = a
Tamper ==
  \E i \in 2..Len(chain) :
    \E j \in 1..Len(chain[i].transactions) :
      \E a \in TamperAmounts \ {chain[i].transactions[j].amount} :
        /\ chain' = [chain EXCEPT ![i].transactions[j].amount = a]
        /\ lastOp' = Op("tamper", chain[i].transactions[j], "", <<i, j>>)
        /\ UNCHANGED <<pendingTransactions, now, nextId, running>>

NextTamper ==
  \/ TamperSubmit
  \/ validatePendingTransactions
  \/ Tamper
  \/ isChainValid

SpecTamper == Init /\ [][NextTamper]_vars

(***************************************************************************)
(* The statements of validatePendingTransactions as steps of the event     *)
(* loop.  `running` counts the calls of validatePendingTransactions that   *)
(* have pushed their block (line 135) and not yet replaced the pool        *)
(* (line 138).  The function is synchronous, it has no await and no        *)
(* callback, so the event loop starts a timer callback or a request        *)
(* handler only when no call is in progress.                               *)
(***************************************************************************)
LoopFree_Interleaved(r) == TRUE

\* the event loop may start a callback: none is executing
LoopFree(r) == r = 0

\* the interval timer's callback starts: lines 126-135
TickBegin ==
  /\ LoopFree(running)
  /\ \E slot \in {s \in {now, now + 1} : s <= MaxTime} :
       /\ chain' = ChainAfterValidate(chain, pendingTransactions, now, slot)
       /\ now' = IF Len(pendingTransactions) = 0 THEN now ELSE slot
  /\ running' = IF Len(pendingTransactions) = 0 THEN running ELSE running + 1
  /\ lastOp' = IF Len(pendingTransactions) = 0
                 THEN Op("validatePendingTransactions", NoTx, "", <<>>)
                 ELSE Op("validatePendingTransactions:135", NoTx, "", <<>>)
  /\ UNCHANGED <<pendingTransactions, nextId>>

\* the callback finishes: lines 138-140
TickEnd ==
  /\ running > 0
  /\ pendingTransactions' = PendingAfterValidate(pendingTransactions)
  /\ running' = running - 1
  /\ lastOp' = Op("validatePendingTransactions", NoTx, "",
                  <<Len(GetLatestBlock(chain).transactions)>>)
  /\ UNCHANGED <<chain, now, nextId>>

\* request handlers, started by the event loop
StepSubmit ==
  /\ LoopFree(running)
  /\ nextId - 2 < MaxTx
  /\ AddTransactionCall(BulkTransaction)

StepBalance == LoopFree(running) /\ getBalanceOfAddress

StepIsChainValid == LoopFree(running) /\ isChainValid

NextSteps ==
  \/ TickBegin
  \/ TickEnd
  \/ StepSubmit
  \/ StepBalance
  \/ StepIsChainValid

SpecSteps == Init /\ [][NextSteps]_vars

(***************************************************************************)
(* The request handlers that submit transactions.                          *)
(***************************************************************************)
\* const faucetAmount = amount || 100
DefaultFaucetAmount == 100
\* faucetAmount > 1000 is refused
MaxFaucetRequest == 1000

\* amount || 100: undefined and 0 are falsy
FaucetAmount(amount) ==
  IF amount = Undefined \/ amount = Num(0) THEN Num(DefaultFaucetAmount)
  ELSE amount

\* the transaction the faucet handler builds
FaucetTransaction(address, amount) ==
  Transaction(Null, address, FaucetAmount(amount), now, nextId)

\* the error the faucet handler answers, "" when it answers success
FaucetError(address, amount) ==
  IF address = Missing THEN "Address is required"
  ELSE IF FaucetAmount(amount)[1] > MaxFaucetRequest
    THEN "Maximum faucet request is 1000 coins"
  ELSE AddTransactionThrows(FaucetTransaction(address, amount))

\* POST /api/faucet with body {address, amount}
FaucetCall(address, amount) ==
  /\ pendingTransactions' =
       IF FaucetError(address, amount) = ""
         THEN PendingAfterAdd(pendingTransactions,
                              FaucetTransaction(address, amount))
         ELSE pendingTransactions
  /\ nextId' = IF FaucetError(address, amount) = "" THEN nextId + 1 ELSE nextId
  /\ lastOp' = Op("POST /api/faucet", FaucetTransaction(address, amount),
                  FaucetError(address, amount),
                  IF FaucetError(address, amount) = ""
                    THEN <<nextId>> ELSE <<>>)
  /\ UNCHANGED <<chain, now, running>>

\* !amount: undefined and 0 are falsy
FalsyAmount(amount) == amount = Undefined \/ amount = Num(0)

\* balance < amount on JavaScript numbers: false when either is NaN
JsLess(x, y) == x # NaN /\ y # Undefined /\ x[1] < y[1]

\* the transaction the transfer handler builds and signs
TransferTransaction(from, privateKey, to, amount) ==
  SignTransaction(Transaction(from, to, amount, now, nextId), privateKey)

\* the error the transfer handler answers, "" when it answers success
TransferError(from, privateKey, to, amount) ==
  IF from = Missing \/ privateKey = Missing \/ to = Missing
     \/ FalsyAmount(amount)
    THEN "Missing required transaction data"
  ELSE IF privateKey # from
    THEN "You cannot sign transactions for other wallets!"
  ELSE IF JsLess(BalanceOf(chain, pendingTransactions, from), amount)
    THEN "Not enough funds for this transaction"
  ELSE AddTransactionThrows(TransferTransaction(from, privateKey, to, amount))

\* POST /api/transaction with body {fromAddress, privateKey, toAddress, amount}
TransferCall(from, privateKey, to, amount) ==
  /\ pendingTransactions' =
       IF TransferError(from, privateKey, to, amount) = ""
         THEN PendingAfterAdd(pendingTransactions,
                TransferTransaction(from, privateKey, to, amount))
         ELSE pendingTransactions
  /\ nextId' = IF TransferError(from, privateKey, to, amount) = ""
                 THEN nextId + 1 ELSE nextId
  /\ lastOp' = Op("POST /api/transaction",
                  Transaction(from, to, amount, now, nextId),
                  TransferError(from, privateKey, to, amount),
                  IF TransferError(from, privateKey, to, amount) = ""
                    THEN <<nextId>> ELSE <<>>)
  /\ UNCHANGED <<chain, now, running>>

\* many faucet requests with the default amount
FaucetBulkRequest ==
  /\ nextId - 2 < MaxBulk
  /\ FaucetCall("A", Undefined)

NextFaucetBulk ==
  \/ FaucetBulkRequest
  \/ BulkTick

SpecFaucetBulk == Init /\ [][NextFaucetBulk]_vars

(***************************************************************************)
(* Lookup by identifier, and the ledger as the request handlers drive it.  *)
(***************************************************************************)
\* the identifiers of the transactions of a sequence
IdsOf(txs) == {txs[i].transactionId : i \in 1..Len(txs)}

\* the blocks of a chain that hold a transaction with the identifier
BlocksWith(c, id) == {i \in 1..Len(c) : id \in IdsOf(c[i].transactions)}

\* the record Blockchain.getTransaction returns, minus the copied
\* transaction fields; status "not found" stands for null
GetTransaction(c, pending, id) ==
  IF BlocksWith(c, id) # {}
    THEN LET first == CHOOSE i \in BlocksWith(c, id) :
                        \A j \in BlocksWith(c, id) : i <= j
         IN [status |-> "confirmed", blockHash |-> c[first].hash,
             slot |-> Num(c[first].slot)]
  ELSE IF id \in IdsOf(pending)
    THEN [status |-> "pending", blockHash |-> <<>>, slot |-> Undefined]
  ELSE [status |-> "not found", blockHash |-> <<>>, slot |-> Undefined]

\* GET /api/transaction/:id
getTransaction ==
  \E id \in 1..nextId :
    /\ lastOp' = Op("getTransaction", NoTx, "",
                    <<id, GetTransaction(chain, pendingTransactions, id)>>)
    /\ UNCHANGED <<chain, pendingTransactions, now, nextId, running>>

\* the request bodies sent to the faucet handler
FaucetAmounts == {Undefined, Num(-1), Num(2), Num(MaxFaucetRequest + 1)}

FaucetRequests ==
  {<<Missing, Undefined>>} \cup {<<"A", amount>> : amount \in FaucetAmounts}

faucetRequest ==
  \E request \in FaucetRequests :
    /\ nextId - 2 < MaxTx
    /\ FaucetCall(request[1], request[2])

\* the request bodies sent to the transfer handler: A pays B
transferRequest ==
  \E privateKey \in Keys :
    \E amount \in Amounts :
      /\ nextId - 2 < MaxTx
      /\ TransferCall("A", privateKey, "B", amount)

NextApi ==
  \/ faucetRequest
  \/ transferRequest
  \/ validatePendingTransactions
  \/ getTransaction

SpecApi == Init /\ [][NextApi]_vars

(***************************************************************************)
(* The interval timer keeps firing: setInterval runs the validation step   *)
(* again and again, so the step is taken whenever it stays possible.       *)
(***************************************************************************)
SpecLive == Init /\ [][NextApi]_vars /\ WF_vars(validatePendingTransactions)

(***************************************************************************)
(* Properties                                                              *)
(***************************************************************************)
\* every transaction the ledger holds: the blocks' in chain order, then the
\* pool's
AllTransactions == ChainTransactions(chain) \o pendingTransactions

\* the pool was empty when the last validation step ran
ValidateSkipped ==
  lastOp.op = "validatePendingTransactions" /\ lastOp.ret = <<>>

\* the last call of addTransaction threw
SubmitFailed == lastOp.op = "addTransaction" /\ lastOp.threw # ""

\* C1: in every state reached by submits and validation steps,
\* isChainValid() returns true.
C1_ChainAlwaysValid == IsChainValid(chain) = "true"

\* C2: for every block of the chain, the genesis block included,
\* calculateHash() yields the value stored in the block's hash field.
C2_RecomputedHashIsStored ==
  \A i \in 1..Len(chain) : BlockCalculateHash(chain[i]) = chain[i].hash

\* the number an amount stands for in a sum of amounts
AmountValue(tx) == IF tx.amount = Undefined THEN 0 ELSE tx.amount[1]

\* the sum of the amounts of the transactions of txs whose field is address
RECURSIVE SumWhere(_, _, _)
SumWhere(txs, field, address) ==
  IF Len(txs) = 0 THEN 0
  ELSE (IF Head(txs)[field] = address THEN AmountValue(Head(txs)) ELSE 0)
       + SumWhere(Tail(txs), field, address)

\* C3: for every address a, balanceOf(a) is the sum of the amounts of the
\* held transactions whose recipient is a minus the sum of the amounts of
\* those whose sender is a.
C3_BalanceIsInflowMinusOutflow ==
  \A a \in Addresses :
    BalanceOf(chain, pendingTransactions, a)
      = Num(SumWhere(AllTransactions, "toAddress", a)
            - SumWhere(AllTransactions, "fromAddress", a))

\* a submitted transaction signed by a key pair other than its sender's
SignedByOtherKey(tx) ==
  /\ tx.fromAddress \in Keys
  /\ Len(tx.signature) = 2
  /\ tx.signature[1] \in Keys \ {tx.fromAddress}

\* C4: every held transaction with a sender carries the signature made by
\* the sender's private key over the transaction's digest, and a submission
\* signed with another key pair's key is rejected.
C4_OnlyAuthorizedAdmitted ==
  /\ \A i \in 1..Len(AllTransactions) :
       AllTransactions[i].fromAddress # Null =>
         AllTransactions[i].signature
           = Sign(AllTransactions[i].fromAddress,
                  TxCalculateHash(AllTransactions[i]))
  /\ (lastOp.op = "addTransaction" /\ SignedByOtherKey(lastOp.tx)) =>
       /\ lastOp.threw # ""
       /\ \A i \in 1..Len(pendingTransactions) :
            pendingTransactions[i] # lastOp.tx

C4_Witness ==
  /\ \E i \in 1..Len(ChainTransactions(chain)) :
       ChainTransactions(chain)[i].fromAddress = "A"
  /\ lastOp.op = "addTransaction"
  /\ SignedByOtherKey(lastOp.tx)
  /\ lastOp.tx.signature[2] = TxCalculateHash(lastOp.tx)

\* the four ways a submission fails
FailureCase(tx) ==
  \/ tx.toAddress = Missing
  \/ /\ tx.fromAddress # Null
     /\ \/ tx.fromAddress = Missing
        \/ tx.signature = NoSig
        \/ ~Verify(tx.fromAddress, TxCalculateHash(tx), tx.signature)

\* C5: a submit that fails (no destination, no sender on a non-system
\* transaction, no signature, or a signature that does not verify) throws
\* and leaves the chain and the pool as they were before the call.
C5_FailedSubmitChangesNothing ==
  [][lastOp'.op = "addTransaction" =>
       /\ FailureCase(lastOp'.tx) => lastOp'.threw # ""
       /\ lastOp'.threw # "" =>
            /\ chain' = chain
            /\ pendingTransactions' = pendingTransactions]_vars

C5_Witness ==
  /\ SubmitFailed
  /\ lastOp.threw = "Cannot add invalid transaction to the chain"
  /\ Len(pendingTransactions) >= 1
  /\ Len(chain) >= 2

\* C6: every transaction in the pool or in a block has an amount that is
\* present and not negative.
C6_AmountsPresentAndNonNegative ==
  \A i \in 1..Len(AllTransactions) :
    /\ AllTransactions[i].amount # Undefined
    /\ AllTransactions[i].amount[1] >= 0

\* C7: every step leaves the chain it found as a prefix of the chain it
\* leaves, each block unchanged.
C7_ChainAppendOnly ==
  [][/\ Len(chain') >= Len(chain)
     /\ SubSeq(chain', 1, Len(chain)) = chain]_vars

C7_Witness == Len(chain) >= 3 /\ lastOp.op = "validatePendingTransactions"

\* C8: chain[0] is a genesis block with no transactions and previousHash
\* '0', and every later block's previousHash is the stored hash of the
\* block before it.
C8_GenesisAndLinks ==
  /\ chain[1].transactions = <<>>
  /\ chain[1].previousHash = GenesisPrevious
  /\ \A i \in 2..Len(chain) : chain[i].previousHash = chain[i - 1].hash

C8_Witness == Len(chain) >= 3

\* C9: a validation step that runs while the pool is empty appends no block
\* and leaves the chain and the pool unchanged.
C9_EmptyTickIsNoOp ==
  [][(lastOp'.op = "validatePendingTransactions"
      /\ Len(pendingTransactions) = 0) =>
       /\ chain' = chain
       /\ pendingTransactions' = pendingTransactions]_vars

C9_Witness == ValidateSkipped /\ Len(chain) >= 2

\* C10: a validation step that runs while the pool holds n transactions,
\* 1 <= n <= transactionsPerBlock, appends exactly one block, whose
\* transactions are the n pending transactions in pool order, and leaves the
\* pool empty.
C10_SmallPoolDrainedIntoOneBlock ==
  [][(lastOp'.op = "validatePendingTransactions"
      /\ Len(pendingTransactions) >= 1
      /\ Len(pendingTransactions) <= transactionsPerBlock) =>
       /\ Len(chain') = Len(chain) + 1
       /\ SubSeq(chain', 1, Len(chain)) = chain
       /\ chain'[Len(chain')].transactions = pendingTransactions
       /\ pendingTransactions' = <<>>]_vars

C10_Witness ==
  /\ lastOp.op = "validatePendingTransactions"
  /\ lastOp.ret = <<2>>
  /\ Len(chain[Len(chain)].transactions) = 2
  /\ chain[Len(chain)].transactions[1].transactionId
       < chain[Len(chain)].transactions[2].transactionId
  /\ pendingTransactions = <<>>

\* C11: from a freshly constructed ledger, after 25 submitted transfers and
\* then one validation step, the new block holds exactly 20 transactions and
\* the pool retains exactly 5.
C11_TwentyFiveSubmitsOneTick ==
  (/\ lastOp.op = "validatePendingTransactions"
   /\ nextId - 2 = 25
   /\ Len(chain) = 2) =>
     /\ Len(chain[2].transactions) = 20
     /\ Len(pendingTransactions) = 5

\* C12: when the amount of a transaction held by a chain block has been
\* changed after the block was constructed, the block's recomputed hash
\* differs from its stored hash and isChainValid() returns false.
C12_TamperedAmountDetected ==
  lastOp.op = "tamper" =>
    /\ BlockCalculateHash(chain[lastOp.ret[1]]) # chain[lastOp.ret[1]].hash
    /\ IsChainValid(chain) = "false"

C12_Witness ==
  /\ lastOp.op = "tamper"
  /\ lastOp.tx.fromAddress = Null
  /\ Len(chain) >= 3
  /\ \E j \in 1..Len(chain[3].transactions) :
       chain[3].transactions[j].amount \notin {Num(2)}
  /\ chain[lastOp.ret[1]].transactions[lastOp.ret[2]].amount
       # lastOp.tx.amount

\* the last step was a submit or a read
Observed ==
  lastOp.op \in {"addTransaction", "getBalanceOfAddress", "isChainValid"}

\* C13: what a submit or a read observes is never a half-done validation
\* step: no transaction is both in a block and in the pool, and whenever no
\* validation step is in progress every admitted transaction is in a block
\* or in the pool.
C13_NoPartialTickObserved ==
  /\ Observed =>
       IdsOf(ChainTransactions(chain)) \cap IdsOf(pendingTransactions) = {}
  /\ running = 0 =>
       IdsOf(ChainTransactions(chain)) \cup IdsOf(pendingTransactions)
         = 1..(nextId - 1)

C13_Witness ==
  /\ lastOp.op = "addTransaction"
  /\ lastOp.threw = ""
  /\ Len(chain) >= 3
  /\ Len(pendingTransactions) >= 1

\* C14: at no time are two executions of validatePendingTransactions in
\* progress.
C14_TicksMutuallyExclusive == running <= 1

C14_Witness == running = 1 /\ Len(chain) >= 3

\* C15: every transaction a handler accepted is in the block appended by
\* the first validation step after its admission.
C15_ConfirmedInNextCycle ==
  [][lastOp'.op = "validatePendingTransactions" =>
       \A i \in 1..Len(pendingTransactions) :
         pendingTransactions[i].transactionId >= 2 =>
           pendingTransactions[i].transactionId
             \in IdsOf(chain'[Len(chain')].transactions)]_vars

\* C16: the transactions of the blocks in chain order, followed by the
\* pool, are the admissions in admission order, each exactly once: the
\* transaction at position i is the i-th admitted one.
C16_AdmissionOrderKept ==
  /\ Len(AllTransactions) = nextId - 1
  /\ \A i \in 1..Len(AllTransactions) : AllTransactions[i].transactionId = i

C16_Witness ==
  /\ Len(chain) = 3
  /\ Len(chain[2].transactions) = transactionsPerBlock
  /\ Len(chain[3].transactions) >= 1
  /\ Len(pendingTransactions) >= 1

\* C17: every block but the genesis block holds at least 1 and at most
\* transactionsPerBlock transactions.
C17_BlockSizeBounded ==
  \A i \in 2..Len(chain) :
    /\ Len(chain[i].transactions) >= 1
    /\ Len(chain[i].transactions) <= transactionsPerBlock

C17_Witness ==
  /\ Len(chain) = 3
  /\ Len(chain[2].transactions) = transactionsPerBlock
  /\ Len(chain[3].transactions) = 1
  /\ lastOp.op = "validatePendingTransactions"
  /\ lastOp.ret = <<1>>

\* C18: the lookup of a transaction only moves forward: not found before
\* admission, then pending, then confirmed; once confirmed, every later
\* lookup returns confirmed with the same block hash and slot.
C18_LookupMovesForward ==
  [][\A id \in 1..nextId' :
       LET before == GetTransaction(chain, pendingTransactions, id)
           after == GetTransaction(chain', pendingTransactions', id)
       IN /\ id >= nextId => before.status = "not found"
          /\ before.status = "pending" =>
               after.status \in {"pending", "confirmed"}
          /\ before.status = "confirmed" => after = before]_vars

C18_Witness ==
  /\ lastOp.op = "getTransaction"
  /\ lastOp.ret[1] = 2
  /\ lastOp.ret[2].status = "confirmed"
  /\ lastOp.ret[2].blockHash = chain[2].hash
  /\ Len(chain) >= 3

\* C20: when transactions enter only through the faucet handler and the
\* transfer handler, the balance of every user address is a number that is
\* never negative.
C20_HandlersKeepBalancesNonNegative ==
  \A a \in Keys :
    /\ BalanceOf(chain, pendingTransactions, a) # NaN
    /\ BalanceOf(chain, pendingTransactions, a)[1] >= 0

====
